---- MODULE Spec2Model ----
(***************************************************************************)
(* Model of the Mandelbrot viewer: src/main.py (scalar evaluator, one      *)
(* thread, column by column) and src/main2.py (batched evaluator, thread   *)
(* pool over row bands).  Both share the same interaction loop main().     *)
(*                                                                         *)
(* Floating-point values are modelled as fixed-point numbers: an integer   *)
(* k stands for the value k / Scale, and every operation that can produce  *)
(* a value finer than 1 / Scale rounds to the nearest representable one.   *)
(***************************************************************************)
EXTENDS Integers, Sequences, FiniteSets, TLC

\* ---------------------------------------------------------------- bounds
Scale == 10          \* representable values are the multiples of 1/Scale
width == 2           \* window width in pixels (scaled down)
height == 4          \* window height in pixels (scaled down)
max_iter == 3        \* iteration bound of the evaluator (scaled down)
MaxEvents == 2       \* input events delivered in one run
MaxQueue == 2        \* events pending between two polls
MaxTestIter == 3     \* largest max_iter of the evaluator test grid

\* ------------------------------------------------ fixed-point arithmetic
\* n / d rounded to the nearest integer (d > 0)
RoundDiv(n, d) ==
    LET q == n \div d
        r == n % d
    IN  IF 2 * r >= d THEN q + 1 ELSE q

\* product of two fixed-point values
Mul(a, b) == RoundDiv(a * b, Scale)

\* quotient of two fixed-point values
Div(a, b) == RoundDiv(a * Scale, b)

\* the fixed-point value of the integer k
Float(k) == k * Scale

Abs(a) == IF a < 0 THEN -a ELSE a

\* complex numbers are pairs <<re, im>> of fixed-point values
complex(re, im) == <<re, im>>

CAdd(z, w) == <<z[1] + w[1], z[2] + w[2]>>

CMul(z, w) == <<Mul(z[1], w[1]) - Mul(z[2], w[2]),
                Mul(z[1], w[2]) + Mul(z[2], w[1])>>

\* abs(z) > 2; a component beyond 2 decides without squaring
AbsGt2(z) ==
    \/ Abs(z[1]) > 2 * Scale
    \/ Abs(z[2]) > 2 * Scale
    \/ z[1] * z[1] + z[2] * z[2] > 4 * Scale * Scale

\* ------------------------------------------------- main.py: mandelbrot
RECURSIVE mandelbrot_loop(_, _, _, _)
mandelbrot_loop(z, c, n, mi) ==
    IF n >= mi THEN mi - 1
    ELSE IF AbsGt2(z) THEN n
    ELSE mandelbrot_loop(CAdd(CMul(z, z), c), c, n + 1, mi)

mandelbrot_main(c, mi) == mandelbrot_loop(c, c, 0, mi)

\* ------------------------------------------------ main2.py: mandelbrot
\* an array held by value: every entry is computed once, when it is assigned
Stored(a) == a @@ <<>>

\* value written to divtime before the sweep
DivtimeInit(mi) == mi

\* an assignment: value is computed once and the rest of the body reads it
Assign(value, Rest(_)) == CHOOSE r \in {Rest(v) : v \in {value}} : TRUE

RECURSIVE mandelbrot_sweep(_, _, _, _, _, _)
mandelbrot_sweep(c, z, divtime, mask, i, mi) ==
    IF i >= mi THEN divtime
    ELSE Assign(Stored([p \in DOMAIN c |->
                          IF mask[p] THEN CAdd(CMul(z[p], z[p]), c[p])
                                     ELSE z[p]]),
         LAMBDA z1 :
         Assign(Stored([p \in DOMAIN c |-> ~AbsGt2(z1[p])]),
         LAMBDA mask1 :
         Assign(Stored([p \in DOMAIN c |->
                          IF mask1[p] # mask[p] THEN i ELSE divtime[p]]),
         LAMBDA div1 :
         mandelbrot_sweep(c, z1, div1, mask1, i + 1, mi))))

mandelbrot_main2(c, mi) ==
    Assign(c, LAMBDA a :
        mandelbrot_sweep(a,
                         [p \in DOMAIN a |-> complex(0, 0)],
                         [p \in DOMAIN a |-> DivtimeInit(mi)],
                         [p \in DOMAIN a |-> TRUE],
                         0, mi))

\* ------------------------------------------------------------- program state
VARIABLES
    variant,      \* which script runs: "main" (main.py) or "main2" (main2.py)
    xmin, xmax, ymin, ymax,   \* the global viewport bounds
    is_drawing,   \* main(): flag set around every call of draw_mandelbrot
    running,      \* main(): loop flag
    queue,        \* pygame's event queue: events not yet fetched
    batch,        \* events returned by pygame.event.get(), not yet iterated
    pc,           \* position of the main thread
    ret,          \* call site draw_mandelbrot returns to
    C,            \* main2.py draw_mandelbrot: the coordinate grid
    futures,      \* main2.py draw_mandelbrot: one future per band
    results,      \* main2.py draw_mandelbrot: results collected so far
    idx,          \* loop index: band being blitted (main2) or column (main)
    surface,      \* colour index of every pixel set with set_at / fill
    progress,     \* length of the progress bar drawn over the surface
    axes,         \* whether axes and labels are drawn over the surface
    written,      \* a pixel of the current frame has been set
    flipped,      \* the current frame has been presented at least once
    order,        \* whether a band task of the frame completed before an earlier band
    posted,       \* number of events delivered so far
    taken,        \* how the QUIT event taken up last had arrived, if any
    t_c, t_mi,    \* evaluator test: input array and max_iter
    t_scalar,     \* evaluator test: results of main.py mandelbrot
    t_batched     \* evaluator test: result of main2.py mandelbrot

vars == <<variant, xmin, xmax, ymin, ymax, is_drawing, running, queue, batch,
          pc, ret, C, futures, results, idx, surface, progress, axes,
          written, flipped, order, posted, taken, t_c, t_mi, t_scalar, t_batched>>

viewVars == <<xmin, xmax, ymin, ymax>>
drawVars == <<C, futures, results, idx, surface, progress, axes,
              written, flipped, order>>
testVars == <<t_c, t_mi, t_scalar, t_batched>>

\* ------------------------------------------------------------ configuration
\* initial viewport: -2.5, 1.5, -2.0, 2.0
xmin_init == RoundDiv(-5 * Scale, 2)
xmax_init == RoundDiv(3 * Scale, 2)
ymin_init == -2 * Scale
ymax_init == 2 * Scale

\* zoom_factor = 0.1
zoom_factor == RoundDiv(Scale, 10)

\* len(colors): the colour table has one entry per iteration count below max_iter
len_colors == max_iter

Pixels == (0 .. width - 1) \X (0 .. height - 1)

None == <<>>

\* ---------------------------------------------------------- viewport mapping
\* main.py draw_mandelbrot: coordinate evaluated for pixel (x, y)
PixelCoord(x, y) ==
    complex(xmin + Mul(Div(Float(x), Float(width)), xmax - xmin),
            ymin + Mul(Div(Float(y), Float(height)), ymax - ymin))

\* main(): complex point a click at (x_click, y_click) is mapped to
ClickCoord(x_click, y_click) ==
    LET re_center == xmin + Mul(Div(Float(x_click), Float(width)), xmax - xmin)
        im_center == ymin + Mul(Div(Float(y_click), Float(height)), ymax - ymin)
    IN  complex(re_center, im_center)

\* np.linspace(start, stop, num)[k], endpoint included
linspace(start, stop, num, k) ==
    LET step == Div(stop - start, Float(num - 1))
    IN  IF k = num - 1 THEN stop
        ELSE start + Mul(Float(k), step)

\* main2.py draw_mandelbrot: C = X + 1j * Y after meshgrid, indexed [row, column]
Grid ==
    [p \in (0 .. height - 1) \X (0 .. width - 1) |->
        complex(linspace(xmin, xmax, width, p[2]),
                linspace(ymin, ymax, height, p[1]))]

\* ------------------------------------------------- main2.py: band partition
chunk_size == height \div 4

\* range(0, height, chunk_size)
BandStarts == {i \in 0 .. height - 1 : i % chunk_size = 0}

NumBands == Cardinality(BandStarts)

\* C[i:i + chunk_size]: rows i .. i + chunk_size - 1, cut at the last row
Slice(a, i) ==
    LET last == IF i + chunk_size < height THEN i + chunk_size ELSE height
    IN  Stored([p \in (0 .. last - i - 1) \X (0 .. width - 1) |->
                   a[<<p[1] + i, p[2]>>]])

\* result.shape[0]
Shape0(a) == Cardinality({p[1] : p \in DOMAIN a})

\* a result taken without waiting for the task
ReadyWithoutWaiting(f) == TRUE

\* f.result() returns once the future is done
Ready(f) == f.done

\* a band drawn without its vertical offset
BandRowNoOffset(i, y) == y

\* vertical position at which row y of band i is drawn
BandRow(i, y) == y + i * chunk_size

\* colour index drawn for an iteration count
Clamp(color) == IF color >= len_colors THEN len_colors - 1 ELSE color

\* ------------------------------------------------------------------- events
QUIT == [type |-> "QUIT", pos |-> <<0, 0>>, button |-> 0]
KEYDOWN == [type |-> "KEYDOWN", pos |-> <<0, 0>>, button |-> 0]
MOUSEBUTTONDOWN(p, b) == [type |-> "MOUSEBUTTONDOWN", pos |-> p, button |-> b]

\* pixels the pointer is pressed at: the window's centre and its last pixel
ClickPixels == {<<width \div 2, height \div 2>>, <<width - 1, height - 1>>}

\* the events delivered: window close, a key, left and right presses, and one
\* press of the middle button
Events ==
    {QUIT, KEYDOWN, MOUSEBUTTONDOWN(<<width \div 2, height \div 2>>, 2)}
        \cup {MOUSEBUTTONDOWN(p, b) : p \in ClickPixels, b \in {1, 3}}

\* an event as it sits in the queue: `during` records is_drawing at arrival
Tagged(e, d) == [type |-> e.type, pos |-> e.pos, button |-> e.button, during |-> d]

\* --------------------------------------------------------------------- Init
NoTest ==
    /\ t_c = None
    /\ t_mi = 0
    /\ t_scalar = None
    /\ t_batched = None

\* main() up to the first call of draw_mandelbrot; running is read only after
\* that call has returned and main() has set it to True
MainInit ==
    /\ variant \in {"main", "main2"}
    /\ xmin = xmin_init
    /\ xmax = xmax_init
    /\ ymin = ymin_init
    /\ ymax = ymax_init
    /\ is_drawing = TRUE
    /\ running = TRUE
    /\ queue = <<>>
    /\ batch = <<>>
    /\ pc = "draw"
    /\ ret = "init"
    /\ C = None
    /\ futures = <<>>
    /\ results = <<>>
    /\ idx = 0
    /\ surface = [p \in Pixels |-> 0]
    /\ progress = 0
    /\ axes = FALSE
    /\ written = FALSE
    /\ flipped = FALSE
    /\ order = "in_order"
    /\ posted = 0
    /\ taken = "none"

Init == MainInit /\ NoTest

\* ------------------------------------------------- the input source (pygame)
\* an event arrives and is queued until the next pygame.event.get()
Post(e) ==
    /\ pc # "exited"
    /\ posted < MaxEvents
    /\ Len(queue) < MaxQueue
    /\ queue' = Append(queue, Tagged(e, is_drawing))
    /\ posted' = posted + 1
    /\ UNCHANGED <<variant, viewVars, is_drawing, running, batch, pc, ret,
                   drawVars, taken, testVars>>

\* ------------------------------------------------ main2.py: draw_mandelbrot
\* lines 60-69: build the grid and submit one task per band
Submit ==
    /\ pc = "draw"
    /\ variant = "main2"
    /\ C' = Grid
    /\ futures' = [k \in 1 .. NumBands |-> [done |-> FALSE, value |-> None]]
    /\ results' = <<>>
    /\ order' = "in_order"
    /\ idx' = 0
    /\ written' = FALSE
    /\ flipped' = FALSE
    /\ pc' = "join"
    /\ UNCHANGED <<variant, viewVars, is_drawing, running, queue, batch, ret,
                   surface, progress, axes, posted, taken, testVars>>

\* a pool thread finishes the task of band k: mandelbrot(C[i:i + chunk_size])
Worker(k) ==
    /\ k \in DOMAIN futures
    /\ ~futures[k].done
    /\ futures' = [futures EXCEPT ![k] =
                     [done |-> TRUE,
                      value |-> mandelbrot_main2(Slice(C, (k - 1) * chunk_size), max_iter)]]
    /\ order' = IF \E j \in 1 .. k - 1 : ~futures[j].done THEN "shuffled" ELSE order
    /\ UNCHANGED <<variant, viewVars, is_drawing, running, queue, batch, pc, ret,
                   C, results, idx, surface, progress, axes, written, flipped,
                   posted, taken, testVars>>

\* line 70: results = [f.result() for f in futures], one future at a time;
\* leaving the with block after the last one
Result ==
    /\ pc = "join"
    /\ Len(results) < NumBands
    /\ Ready(futures[Len(results) + 1])
    /\ results' = Append(results, futures[Len(results) + 1].value)
    /\ pc' = IF Len(results) + 1 = NumBands THEN "blit" ELSE "join"
    /\ UNCHANGED <<variant, viewVars, is_drawing, running, queue, batch, ret,
                   C, futures, idx, surface, progress, axes, written, flipped,
                   order, posted, taken, testVars>>

\* lines 73-88: one pass of the loop over results: draw band idx, present it,
\* draw the progress bar, present again
Blit ==
    /\ pc = "blit"
    /\ idx < Len(results)
    /\ LET result == results[idx + 1]
           rows == 0 .. Shape0(result) - 1
       IN  surface' = [p \in Pixels |->
                         IF \E y \in rows : BandRow(idx, y) = p[2]
                         THEN LET y == CHOOSE y \in rows : BandRow(idx, y) = p[2]
                              IN  Clamp(result[<<y, p[1]>>])
                         ELSE surface[p]]
    /\ written' = (written \/ Shape0(results[idx + 1]) > 0)
    /\ flipped' = TRUE
    /\ progress' = ((idx + 1) * width) \div Len(results)
    /\ idx' = idx + 1
    /\ pc' = IF idx + 1 = Len(results) THEN "axes" ELSE "blit"
    /\ UNCHANGED <<variant, viewVars, is_drawing, running, queue, batch, ret,
                   C, futures, results, axes, order, posted, taken, testVars>>

\* -------------------------------------------------- main.py: draw_mandelbrot
\* line 56: entry of the single-threaded renderer
Enter ==
    /\ pc = "draw"
    /\ variant = "main"
    /\ idx' = 0
    /\ written' = FALSE
    /\ flipped' = FALSE
    /\ pc' = "cols"
    /\ UNCHANGED <<variant, viewVars, is_drawing, running, queue, batch, ret,
                   C, futures, results, surface, progress, axes, order,
                   posted, taken, testVars>>

\* lines 58-74: one pass of the loop over x: evaluate and set column idx,
\* present it, draw the progress bar, present again
Column ==
    /\ pc = "cols"
    /\ idx < width
    /\ surface' = [p \in Pixels |->
                     IF p[1] = idx
                     THEN mandelbrot_main(PixelCoord(p[1], p[2]), max_iter)
                     ELSE surface[p]]
    /\ written' = TRUE
    /\ flipped' = TRUE
    /\ progress' = ((idx + 1) * width) \div width
    /\ idx' = idx + 1
    /\ pc' = IF idx + 1 = width THEN "axes" ELSE "cols"
    /\ UNCHANGED <<variant, viewVars, is_drawing, running, queue, batch, ret,
                   C, futures, results, axes, order, posted, taken, testVars>>

\* main.py lines 76-92, main2.py lines 91-92: axes, labels and the last flip
Axes ==
    /\ pc = "axes"
    /\ axes' = TRUE
    /\ flipped' = TRUE
    /\ pc' = "return"
    /\ UNCHANGED <<variant, viewVars, is_drawing, running, queue, batch, ret,
                   C, futures, results, idx, surface, progress, written, order,
                   posted, taken, testVars>>

\* ------------------------------------------------------------------- main()
\* draw_mandelbrot has returned (its locals are gone): is_drawing = False
Return ==
    /\ pc = "return"
    /\ is_drawing' = FALSE
    /\ pc' = IF ret = "init" THEN "while" ELSE "for"
    /\ C' = None
    /\ futures' = <<>>
    /\ results' = <<>>
    /\ order' = "in_order"
    /\ idx' = 0
    /\ UNCHANGED <<variant, viewVars, running, queue, batch, ret, surface,
                   progress, axes, written, flipped, posted, taken, testVars>>

\* while running: ... for event in pygame.event.get()
Poll ==
    /\ pc = "while"
    /\ running
    /\ batch' = queue
    /\ queue' = <<>>
    /\ pc' = "for"
    /\ UNCHANGED <<variant, viewVars, is_drawing, running, ret, drawVars,
                   posted, taken, testVars>>

\* the loop is left: pygame.quit(), sys.exit()
Exit ==
    /\ pc = "while"
    /\ ~running
    /\ pc' = "exited"
    /\ UNCHANGED <<variant, viewVars, is_drawing, running, queue, batch, ret,
                   drawVars, posted, taken, testVars>>

\* the for loop has iterated every event of the batch
EndFor ==
    /\ pc = "for"
    /\ batch = <<>>
    /\ pc' = "while"
    /\ UNCHANGED <<variant, viewVars, is_drawing, running, queue, batch, ret,
                   drawVars, posted, taken, testVars>>

\* a QUIT event that leaves the loop flag set
RunningStaysTrue == TRUE

\* value assigned to running on a QUIT event
RunningAfterQuit == FALSE

\* if event.type == pygame.QUIT: running = False
HandleQuit ==
    /\ pc = "for"
    /\ batch # <<>>
    /\ Head(batch).type = "QUIT"
    /\ running' = RunningAfterQuit
    /\ taken' = IF Head(batch).during THEN "Rendering" ELSE "Idle"
    /\ batch' = Tail(batch)
    /\ UNCHANGED <<variant, viewVars, is_drawing, queue, pc, ret, drawVars,
                   posted, testVars>>

\* the elif condition: a pointer press taken up as a zoom
IsZoom(event) ==
    /\ event.type = "MOUSEBUTTONDOWN"
    /\ ~is_drawing
    /\ event.button \in {1, 3}

\* the viewport computed from a click: new centre and new dimensions
Zoom(x_click, y_click, button) ==
    LET center == ClickCoord(x_click, y_click)
        re_center == center[1]
        im_center == center[2]
        zoom_width == IF button = 1 THEN Mul(xmax - xmin, zoom_factor)
                                    ELSE Div(xmax - xmin, zoom_factor)
        zoom_height == IF button = 1 THEN Mul(ymax - ymin, zoom_factor)
                                     ELSE Div(ymax - ymin, zoom_factor)
    IN  [xmin |-> re_center - Div(zoom_width, Float(2)),
         xmax |-> re_center + Div(zoom_width, Float(2)),
         ymin |-> im_center - Div(zoom_height, Float(2)),
         ymax |-> im_center + Div(zoom_height, Float(2))]

\* elif event.type == pygame.MOUSEBUTTONDOWN and not is_drawing, button 1 or 3:
\* new bounds, screen.fill, is_drawing = True, call of draw_mandelbrot
HandleClick ==
    /\ pc = "for"
    /\ batch # <<>>
    /\ IsZoom(Head(batch))
    /\ LET event == Head(batch)
           v == Zoom(event.pos[1], event.pos[2], event.button)
       IN  /\ xmin' = v.xmin
           /\ xmax' = v.xmax
           /\ ymin' = v.ymin
           /\ ymax' = v.ymax
    /\ surface' = [p \in Pixels |-> 0]
    /\ progress' = 0
    /\ axes' = FALSE
    /\ is_drawing' = TRUE
    /\ batch' = Tail(batch)
    /\ ret' = "loop"
    /\ pc' = "draw"
    /\ UNCHANGED <<variant, running, queue, C, futures, results, idx, written,
                   flipped, order, posted, taken, testVars>>

\* any other event, and a press of another button (continue): nothing happens
Ignore ==
    /\ pc = "for"
    /\ batch # <<>>
    /\ Head(batch).type # "QUIT"
    /\ ~IsZoom(Head(batch))
    /\ batch' = Tail(batch)
    /\ UNCHANGED <<variant, viewVars, is_drawing, running, queue, pc, ret,
                   drawVars, posted, taken, testVars>>

\* ------------------------------------------------------------ specification
MainThread ==
    \/ Submit
    \/ Result
    \/ Blit
    \/ Enter
    \/ Column
    \/ Axes
    \/ Return
    \/ Poll
    \/ Exit
    \/ EndFor
    \/ HandleQuit
    \/ HandleClick
    \/ Ignore

PoolThreads == \E k \in 1 .. NumBands : Worker(k)

Next ==
    \/ \E e \in Events : Post(e)
    \/ PoolThreads
    \/ MainThread

Spec == Init /\ [][Next]_vars

\* the events that matter to leaving the loop: window close, an event
\* that is ignored, and a zoom click
LiveEvents ==
    {QUIT, KEYDOWN, MOUSEBUTTONDOWN(<<width \div 2, height \div 2>>, 1)}

NextLive ==
    \/ \E e \in LiveEvents : Post(e)
    \/ PoolThreads
    \/ MainThread

\* the main thread and every pool thread keep running while they can take a
\* step; the input source is free to deliver events or not
FairSpec ==
    /\ Init
    /\ [][NextLive]_vars
    /\ WF_vars(MainThread)
    /\ \A k \in 1 .. NumBands : WF_vars(Worker(k))

\* ------------------------------------------------- evaluator test harness
\* the sample coordinates: every representable point of the default viewport
TestGrid == (xmin_init .. xmax_init) \X (ymin_init .. ymax_init)

\* second entry of the test array: an interior point and a far exterior one
TestNeighbours == {complex(0, 0), complex(Float(3), 0)}

InitEval ==
    /\ MainInit
    /\ variant = "main2"
    /\ t_c \in {<<c, d>> : c \in TestGrid, d \in TestNeighbours}
    /\ t_mi \in 1 .. MaxTestIter
    /\ t_scalar = None
    /\ t_batched = None

\* main.py mandelbrot applied to every point of the array
CallScalar ==
    /\ t_scalar = None
    /\ t_scalar' = [p \in DOMAIN t_c |-> mandelbrot_main(t_c[p], t_mi)]
    /\ UNCHANGED <<variant, viewVars, is_drawing, running, queue, batch, pc,
                   ret, drawVars, posted, taken, t_c, t_mi, t_batched>>

\* main2.py mandelbrot applied to the whole array
CallBatched ==
    /\ t_batched = None
    /\ t_batched' = mandelbrot_main2(t_c, t_mi)
    /\ UNCHANGED <<variant, viewVars, is_drawing, running, queue, batch, pc,
                   ret, drawVars, posted, taken, t_c, t_mi, t_scalar>>

NextEval == CallScalar \/ CallBatched

SpecEval == InitEval /\ [][NextEval]_vars

\* ------------------------------------------------------------------ claims
QuitPending ==
    \/ \E i \in DOMAIN queue : queue[i].type = "QUIT"
    \/ \E i \in DOMAIN batch : batch[i].type = "QUIT"

Rendering == pc \in {"join", "blit", "axes", "return"}

\* C1: a pointer press that arrived while a render was in progress never
\* changes the viewport and never starts a render.
C1_ClickWhileRenderingDiscarded ==
    [][(/\ pc = "for"
        /\ batch # <<>>
        /\ Head(batch).type = "MOUSEBUTTONDOWN"
        /\ Head(batch).during)
       => (viewVars' = viewVars /\ is_drawing' = is_drawing)]_vars

\* C2: on every point of the test array the batched evaluator returns the
\* same iteration count as the scalar evaluator.
C2_ScalarBatchedAgree ==
    (t_scalar # None /\ t_batched # None)
        => \A p \in DOMAIN t_c : t_batched[p] = t_scalar[p]

\* the orbit of c: c, c*c + c, ... (the value tested at iteration k)
RECURSIVE Orbit(_, _)
Orbit(c, k) ==
    IF k = 0 THEN c
    ELSE LET z == Orbit(c, k - 1) IN CAdd(CMul(z, z), c)

\* the first iteration index below mi at which the orbit has left the disc of
\* radius 2 (every earlier value lies inside it), or mi - 1 when there is none
RECURSIVE EscapeIndex(_, _, _)
EscapeIndex(c, k, mi) ==
    IF k >= mi THEN mi - 1
    ELSE IF AbsGt2(Orbit(c, k)) THEN k
    ELSE EscapeIndex(c, k + 1, mi)

\* C3: both evaluators return, for every point, an integer in
\* [0, max_iter - 1]: the index of the first escape, or max_iter - 1.
C3_EvaluatorRange ==
    /\ t_scalar # None =>
          \A p \in DOMAIN t_c :
              /\ t_scalar[p] \in 0 .. t_mi - 1
              /\ t_scalar[p] = EscapeIndex(t_c[p], 0, t_mi)
    /\ t_batched # None =>
          \A p \in DOMAIN t_c :
              /\ t_batched[p] \in 0 .. t_mi - 1
              /\ t_batched[p] = EscapeIndex(t_c[p], 0, t_mi)

\* C4: an accepted zoom click centres the new viewport on the point the old
\* viewport maps the pixel to; a left click multiplies width and height by
\* the zoom factor, a right click divides them by it.
C4_ZoomCentreAndSize ==
    [][HandleClick =>
         LET event == Head(batch)
             center == ClickCoord(event.pos[1], event.pos[2])
         IN  /\ xmin' + xmax' = 2 * center[1]
             /\ ymin' + ymax' = 2 * center[2]
             /\ event.button = 1 =>
                   /\ (xmax' - xmin') * Scale = (xmax - xmin) * zoom_factor
                   /\ (ymax' - ymin') * Scale = (ymax - ymin) * zoom_factor
             /\ event.button = 3 =>
                   /\ (xmax' - xmin') * zoom_factor = (xmax - xmin) * Scale
                   /\ (ymax' - ymin') * zoom_factor = (ymax - ymin) * Scale]_vars

\* C5: in every reachable state the viewport is valid: xmin < xmax and
\* ymin < ymax.
C5_ViewportValid == xmin < xmax /\ ymin < ymax

C7_JoinBeforePresent ==
    (variant = "main2" /\ Rendering /\ (written \/ flipped)) =>
        \A k \in DOMAIN futures : futures[k].done

C7_Witness ==
    /\ variant = "main2"
    /\ pc = "blit"
    /\ order = "shuffled"
    /\ written
    /\ flipped

\* C8 as stated: a QUIT event is taken up in the controller state in which
\* it was delivered.
C8_QuitTakenUpWhereDelivered ==
    (pc = "for" /\ batch # <<>> /\ Head(batch).type = "QUIT")
        => Head(batch).during = is_drawing

\* C8 as amended: a QUIT event delivered in either state is taken up once no
\* render is in progress, and the process then leaves the loop and exits.
C8_QuitLeadsToExit ==
    /\ [][HandleQuit => ~is_drawing]_vars
    /\ QuitPending ~> (pc = "exited")

C8_Witness ==
    /\ pc = "exited"
    /\ taken = "Rendering"

\* C9: the coordinate the renderer evaluates for a pixel is the one the click
\* handler assigns to a click at that pixel, in both render variants.
C9_RenderCoordIsClickCoord ==
    /\ (variant = "main" /\ pc = "cols") =>
          \A p \in Pixels : PixelCoord(p[1], p[2]) = ClickCoord(p[1], p[2])
    /\ (variant = "main2" /\ Rendering) =>
          \A p \in Pixels : C[<<p[2], p[1]>>] = ClickCoord(p[1], p[2])

\* C10: once a QUIT event has been processed the viewport never changes
\* again and no render is started.
C10_NoZoomAfterQuit ==
    [][~running => (viewVars' = viewVars /\ (is_drawing' => is_drawing))]_vars

====
